---- MODULE Spec2Model ----
(***************************************************************************)
(* particle-simulation/physics-constants.js: the shared table of physics   *)
(* constants (PHYSICS_CONSTANTS), the Rust transcription of the same       *)
(* constants kept in the trailing comment, and the consumers that import   *)
(* the table.  The table is a plain JavaScript object created by an object *)
(* literal and exported through a const binding; consumers act on it with  *)
(* the language's ordinary property operations ([[Get]], [[Set]],          *)
(* [[Delete]]) and cannot rebind the exported name.                        *)
(*                                                                         *)
(* Numbers are decimal literals m * 10^e (e <= 0), kept exactly; ToF64 and  *)
(* ToF32 give the binary floats the two languages store for a literal.     *)
(***************************************************************************)
EXTENDS Integers, Sequences, FiniteSets, TLC

VARIABLES table, last, vx, vy, vx0, vy0, gsteps, fsteps, dist, impulse

vars == <<table, last, vx, vy, vx0, vy0, gsteps, fsteps, dist, impulse>>
simvars == <<vx, vy, vx0, vy0, gsteps, fsteps, dist, impulse>>

(* ---------------------------------------------------------------- bounds *)

\* number of consumer modules (renderers, update loops) importing the table
NumConsumers == 2
\* number of gravity frames / friction applications a particle goes through
MaxFrames == 2

Consumers == 1..NumConsumers

(* ------------------------------------------------------- decimal numbers *)

RECURSIVE Pow10(_)
Pow10(k) == IF k <= 0 THEN 1 ELSE 10 * Pow10(k - 1)

\* a JavaScript value: a Number m * 10^e, or undefined
Undefined == [type |-> "undefined", m |-> 0, e |-> 0]

\* the numeric literal as written in the source text: 200 is Lit(200, 0),
\* 200.0 is Lit(2000, -1), 0.0002 is Lit(2, -4)
Lit(m, e) == [type |-> "number", m |-> m, e |-> e]

\* the Number a literal denotes: trailing fractional zeros carry no value
RECURSIVE NumberValue(_)
NumberValue(x) ==
    IF x.m = 0 THEN Lit(0, 0)
    ELSE IF x.e < 0 /\ x.m % 10 = 0
         THEN NumberValue(Lit(x.m \div 10, x.e + 1))
         ELSE x

MinE(a, b) == IF a.e <= b.e THEN a.e ELSE b.e
Scaled(a, e) == a.m * Pow10(a.e - e)

NumEq(a, b) == /\ a.type = "number" /\ b.type = "number"
               /\ Scaled(a, MinE(a, b)) = Scaled(b, MinE(a, b))
NumLeq(a, b) == /\ a.type = "number" /\ b.type = "number"
                /\ Scaled(a, MinE(a, b)) <= Scaled(b, MinE(a, b))
NumLess(a, b) == NumLeq(a, b) /\ ~NumEq(a, b)

Add(a, b) == NumberValue(Lit(Scaled(a, MinE(a, b)) + Scaled(b, MinE(a, b)), MinE(a, b)))
Sub(a, b) == NumberValue(Lit(Scaled(a, MinE(a, b)) - Scaled(b, MinE(a, b)), MinE(a, b)))
Mul(a, b) == NumberValue(Lit(a.m * b.m, a.e + b.e))

(* -------------------------------------------------------------- the table *)

\* the object literal of physics-constants.js, evaluated
ObjectLiteral ==
    [GRAVITY           |-> NumberValue(Lit(2, -4)),
     BOUNCE            |-> NumberValue(Lit(85, -2)),
     EXPLOSION_FORCE   |-> NumberValue(Lit(80, -1)),
     EXPLOSION_RADIUS  |-> NumberValue(Lit(200, 0)),
     FRICTION          |-> NumberValue(Lit(98, -2)),
     INITIAL_SPEED_MIN |-> NumberValue(Lit(10, -1)),
     INITIAL_SPEED_MAX |-> NumberValue(Lit(30, -1)),
     INITIAL_VY_OFFSET |-> NumberValue(Lit(-30, -1)),
     PARTICLE_SIZE_MIN |-> NumberValue(Lit(10, -1)),
     PARTICLE_SIZE_MAX |-> NumberValue(Lit(30, -1)),
     HUE_SHIFT_SPEED   |-> NumberValue(Lit(3, -1)),
     CANVAS_WIDTH      |-> NumberValue(Lit(1200, 0)),
     CANVAS_HEIGHT     |-> NumberValue(Lit(800, 0)),
     RENDER_SIZE       |-> NumberValue(Lit(25, -1))]

\* the property names the literal defines
Names == DOMAIN ObjectLiteral

\* mutant: a digit slipped in GRAVITY (0.002)
PHYSICS_CONSTANTS_GravityTypo == [ObjectLiteral EXCEPT !.GRAVITY = Lit(2, -3)]

\* mutant: BOUNCE gains energy (1.85)
PHYSICS_CONSTANTS_BounceOver == [ObjectLiteral EXCEPT !.BOUNCE = Lit(185, -2)]

\* mutant: HUE_SHIFT_SPEED left out of the literal
PHYSICS_CONSTANTS_MissingHue ==
    [n \in DOMAIN ObjectLiteral \ {"HUE_SHIFT_SPEED"} |-> ObjectLiteral[n]]

\* mutant: FRICTION with its digits transposed (0.89)
PHYSICS_CONSTANTS_FrictionSwap == [ObjectLiteral EXCEPT !.FRICTION = Lit(89, -2)]

\* mutant: a wider explosion (250)
PHYSICS_CONSTANTS_WideRadius == [ObjectLiteral EXCEPT !.EXPLOSION_RADIUS = Lit(250, 0)]

\* export const PHYSICS_CONSTANTS = { ... }: the value the binding holds once
\* the module is evaluated
PHYSICS_CONSTANTS == ObjectLiteral

\* the Rust constants transcribed in the trailing comment (all f32)
RustConstItems ==
    [GRAVITY           |-> NumberValue(Lit(2, -4)),
     BOUNCE            |-> NumberValue(Lit(85, -2)),
     EXPLOSION_FORCE   |-> NumberValue(Lit(80, -1)),
     EXPLOSION_RADIUS  |-> NumberValue(Lit(2000, -1)),
     FRICTION          |-> NumberValue(Lit(98, -2)),
     INITIAL_SPEED_MIN |-> NumberValue(Lit(10, -1)),
     INITIAL_SPEED_MAX |-> NumberValue(Lit(30, -1)),
     INITIAL_VY_OFFSET |-> NumberValue(Lit(-30, -1)),
     PARTICLE_SIZE_MIN |-> NumberValue(Lit(10, -1)),
     PARTICLE_SIZE_MAX |-> NumberValue(Lit(30, -1)),
     HUE_SHIFT_SPEED   |-> NumberValue(Lit(3, -1)),
     CANVAS_WIDTH      |-> NumberValue(Lit(12000, -1)),
     CANVAS_HEIGHT     |-> NumberValue(Lit(8000, -1)),
     RENDER_SIZE       |-> NumberValue(Lit(25, -1))]

\* mutant: the transcription drifts, HUE_SHIFT_SPEED written 0.03
RUST_CONSTANTS_Drift == [RustConstItems EXCEPT !.HUE_SHIFT_SPEED = Lit(3, -2)]

\* the constants the Rust renderer compiles in
RUST_CONSTANTS == RustConstItems

\* the object literal is never frozen or sealed: the object stays extensible
\* and every property it creates is writable and configurable
Extensible == TRUE
Writable(k) == TRUE
Configurable(k) == TRUE

(* ------------------------------------------------ binary floating point *)

\* a binary float: sign, exponent E and the significand bits b1 b2 ... bp
\* (b1 = 1), denoting (-1)^sign * 2^E * b1.b2...bp; zero has no bits

Abs(n) == IF n < 0 THEN -n ELSE n

\* n / d scaled by a power of two into [1, 2): the exponent E with it
RECURSIVE BinExp(_, _, _)
BinExp(n, d, E) ==
    IF n >= 2 * d THEN BinExp(n, 2 * d, E + 1)
    ELSE IF n < d THEN BinExp(2 * n, d, E - 1)
    ELSE [n |-> n, d |-> d, E |-> E]

\* the next k bits of the binary expansion of r / d (r < d)
RECURSIVE Bits(_, _, _)
Bits(r, d, k) ==
    IF k = 0 THEN <<>>
    ELSE IF 2 * r >= d THEN <<1>> \o Bits(2 * r - d, d, k - 1)
                       ELSE <<0>> \o Bits(2 * r, d, k - 1)

\* what is left of r / d after those k bits
RECURSIVE Rem(_, _, _)
Rem(r, d, k) ==
    IF k = 0 THEN r
    ELSE IF 2 * r >= d THEN Rem(2 * r - d, d, k - 1) ELSE Rem(2 * r, d, k - 1)

\* bits + 1 in the last place; carry is 1 when every bit was 1
RECURSIVE Inc(_)
Inc(bits) ==
    IF bits = <<>> THEN [bits |-> <<>>, carry |-> 1]
    ELSE IF bits[Len(bits)] = 0
         THEN [bits |-> SubSeq(bits, 1, Len(bits) - 1) \o <<1>>, carry |-> 0]
         ELSE LET up == Inc(SubSeq(bits, 1, Len(bits) - 1))
              IN  [bits |-> up.bits \o <<0>>, carry |-> up.carry]

\* round to nearest, ties to even: bits are the kept bits, guard the first
\* dropped bit, sticky whether anything non-zero follows it
RoundNearestEven(sign, E, bits, guard, sticky) ==
    IF guard = 1 /\ (sticky \/ bits[Len(bits)] = 1)
    THEN LET up == Inc(bits)
         IN  IF up.carry = 1
             THEN [sign |-> sign, E |-> E + 1,
                   bits |-> <<1>> \o SubSeq(up.bits, 1, Len(bits) - 1)]
             ELSE [sign |-> sign, E |-> E, bits |-> up.bits]
    ELSE [sign |-> sign, E |-> E, bits |-> bits]

\* the decimal x rounded to a binary float of p significand bits
ToFloat(x, p) ==
    IF x.m = 0 THEN [sign |-> 0, E |-> 0, bits |-> <<>>]
    ELSE LET nrm == BinExp(Abs(x.m), Pow10(-x.e), 0)
             all == <<1>> \o Bits(nrm.n - nrm.d, nrm.d, p)
         IN  RoundNearestEven(IF x.m < 0 THEN 1 ELSE 0, nrm.E,
                              SubSeq(all, 1, p), all[p + 1],
                              Rem(nrm.n - nrm.d, nrm.d, p) # 0)

\* a JavaScript Number is an IEEE double: 53 significand bits
ToF64(x) == ToFloat(x, 53)

\* a Rust f32: 24 significand bits
ToF32(x) == ToFloat(x, 24)

\* f64 as f32 (Math.fround, `as f32`)
NarrowToF32(f) ==
    IF f.bits = <<>> THEN f
    ELSE RoundNearestEven(f.sign, f.E, SubSeq(f.bits, 1, 24), f.bits[25],
                          \E i \in 26..Len(f.bits) : f.bits[i] = 1)

\* f32 as f64 (`as f64`): exact, the new low bits are zero
WidenToF64(f) ==
    IF f.bits = <<>> THEN f
    ELSE [f EXCEPT !.bits = @ \o [i \in 1..(53 - Len(f.bits)) |-> 0]]

(* ------------------------------------------- ordinary property operations *)

\* O[k]: the value of an own property, undefined for a name O does not have
OrdinaryGet(O, k) == IF k \in DOMAIN O THEN O[k] ELSE Undefined

\* O[k] = v in a module (strict mode): [obj, threw]
OrdinarySet(O, k, v) ==
    IF k \in DOMAIN O
    THEN IF Writable(k)
         THEN [obj |-> [O EXCEPT ![k] = v], threw |-> FALSE]
         ELSE [obj |-> O, threw |-> TRUE]
    ELSE IF Extensible
         THEN [obj |-> [x \in DOMAIN O \cup {k} |-> IF x = k THEN v ELSE O[x]],
               threw |-> FALSE]
         ELSE [obj |-> O, threw |-> TRUE]

\* delete O[k] in a module (strict mode): [obj, threw]
OrdinaryDelete(O, k) ==
    IF k \notin DOMAIN O THEN [obj |-> O, threw |-> FALSE]
    ELSE IF Configurable(k)
         THEN [obj |-> [x \in DOMAIN O \ {k} |-> O[x]], threw |-> FALSE]
         ELSE [obj |-> O, threw |-> TRUE]

(* --------------------------------------------------------------- consumers *)

\* names a consumer may ask for: the defined ones and a misspelt one
ReadKeys == Names \cup {"GRAVTY"}
\* names a consumer may try to write: existing ones and a new one
WriteKeys == {"GRAVITY", "BOUNCE", "WIND"}
WriteValues == {Lit(5, 0), Lit(-1, 0)}

NoOp == [op |-> "none", key |-> "", val |-> Undefined, threw |-> FALSE]

Init ==
    /\ table = PHYSICS_CONSTANTS
    /\ last = [c \in Consumers |-> NoOp]
    /\ vx = Lit(0, 0) /\ vy = Lit(0, 0) /\ vx0 = Lit(0, 0) /\ vy0 = Lit(0, 0)
    /\ gsteps = 0 /\ fsteps = 0
    /\ dist = Undefined /\ impulse = [num |-> Undefined, den |-> Undefined]

\* mutant: a read that takes the entry out of the table
ReadTaking(c, k) ==
    /\ last' = [last EXCEPT ![c] = [op |-> "get", key |-> k,
                                    val |-> OrdinaryGet(table, k), threw |-> FALSE]]
    /\ table' = OrdinaryDelete(table, k).obj
    /\ UNCHANGED simvars

\* PHYSICS_CONSTANTS.k / PHYSICS_CONSTANTS[k]
Read(c, k) ==
    /\ last' = [last EXCEPT ![c] = [op |-> "get", key |-> k,
                                    val |-> OrdinaryGet(table, k), threw |-> FALSE]]
    /\ UNCHANGED <<table, simvars>>

\* PHYSICS_CONSTANTS.k = v
Assign(c, k, v) ==
    /\ table' = OrdinarySet(table, k, v).obj
    /\ last' = [last EXCEPT ![c] = [op |-> "set", key |-> k, val |-> v,
                                    threw |-> OrdinarySet(table, k, v).threw]]
    /\ UNCHANGED simvars

\* delete PHYSICS_CONSTANTS.k
Delete(c, k) ==
    /\ table' = OrdinaryDelete(table, k).obj
    /\ last' = [last EXCEPT ![c] = [op |-> "delete", key |-> k, val |-> Undefined,
                                    threw |-> OrdinaryDelete(table, k).threw]]
    /\ UNCHANGED simvars

\* PHYSICS_CONSTANTS = {...}: the binding is const (and read-only in importers)
Rebind(c) ==
    /\ last' = [last EXCEPT ![c] = [op |-> "rebind", key |-> "", val |-> Undefined,
                                    threw |-> TRUE]]
    /\ UNCHANGED <<table, simvars>>

Next ==
    \/ \E c \in Consumers, k \in ReadKeys \cup WriteKeys : Read(c, k)
    \/ \E c \in Consumers, k \in WriteKeys, v \in WriteValues : Assign(c, k, v)
    \/ \E c \in Consumers, k \in WriteKeys : Delete(c, k)
    \/ \E c \in Consumers : Rebind(c)

Spec == Init /\ [][Next]_vars

\* consumers as the interfaces describe them: they only read
ReadNext == \E c \in Consumers, k \in ReadKeys : Read(c, k)

SpecRead == Init /\ [][ReadNext]_vars

(* ------------------------------------------------- simulation update loop *)

\* initial particle velocities and explosion distances tried
InitialVx == {Lit(0, 0), Lit(10, 0), Lit(-4, 0), Lit(25, -1)}
InitialVy == {Lit(0, 0), Lit(-3, 0), Lit(15, -1)}
Distances == {Lit(0, 0), Lit(100, 0), Lit(1995, -1), Lit(200, 0), Lit(201, 0), Lit(250, 0)}

\* gravity integration: one frame adds GRAVITY to the vertical velocity
GravityIntegrate(v) == Add(v, OrdinaryGet(table, "GRAVITY"))

\* friction decay: the velocity is multiplied by FRICTION
FrictionDecay(v) == Mul(v, OrdinaryGet(table, "FRICTION"))

\* explosion impulse magnitude at distance d from the origin, as the fraction
\* num / den: nothing beyond EXPLOSION_RADIUS, and EXPLOSION_FORCE attenuated
\* linearly with the distance within it
ExplosionImpulse(d) ==
    IF NumLess(OrdinaryGet(table, "EXPLOSION_RADIUS"), d)
    THEN [num |-> Lit(0, 0), den |-> Lit(1, 0)]
    ELSE [num |-> Mul(OrdinaryGet(table, "EXPLOSION_FORCE"),
                      Sub(OrdinaryGet(table, "EXPLOSION_RADIUS"), d)),
          den |-> OrdinaryGet(table, "EXPLOSION_RADIUS")]

SimInit ==
    /\ table = PHYSICS_CONSTANTS
    /\ last = [c \in Consumers |-> NoOp]
    /\ vx0 \in InitialVx /\ vy0 \in InitialVy
    /\ vx = vx0 /\ vy = vy0
    /\ gsteps = 0 /\ fsteps = 0
    /\ dist = Undefined /\ impulse = [num |-> Undefined, den |-> Undefined]

GravityStep ==
    /\ gsteps < MaxFrames
    /\ vy' = GravityIntegrate(vy)
    /\ gsteps' = gsteps + 1
    /\ UNCHANGED <<table, last, vx, vx0, vy0, fsteps, dist, impulse>>

FrictionStep ==
    /\ fsteps < MaxFrames
    /\ vx' = FrictionDecay(vx)
    /\ fsteps' = fsteps + 1
    /\ UNCHANGED <<table, last, vy, vx0, vy0, gsteps, dist, impulse>>

Explode(d) ==
    /\ dist' = d
    /\ impulse' = ExplosionImpulse(d)
    /\ UNCHANGED <<table, last, vx, vy, vx0, vy0, gsteps, fsteps>>

SimNext ==
    \/ GravityStep
    \/ FrictionStep
    \/ \E d \in Distances : Explode(d)

SpecSim == SimInit /\ [][SimNext]_vars

(* ------------------------------------------------------------- properties *)

Zero == Lit(0, 0)
One == Lit(1, 0)

\* a consumer's last operation was a read of name k
HasRead(c, k) == last[c].op = "get" /\ last[c].key = k

\* C1: the table is immutable: every attempted write (assigning to an
\* existing name, adding a name, deleting a name) fails, and every name keeps
\* the value it had at initialization
C1_TableImmutable ==
    /\ table = PHYSICS_CONSTANTS
    /\ \A c \in Consumers :
          (last[c].op = "set" \/ (last[c].op = "delete" /\ last[c].key \in Names))
             => last[c].threw

\* the literals the table is declared to hold
DeclaredLiterals ==
    [GRAVITY           |-> Lit(2, -4),
     BOUNCE            |-> Lit(85, -2),
     EXPLOSION_FORCE   |-> Lit(80, -1),
     EXPLOSION_RADIUS  |-> Lit(200, 0),
     FRICTION          |-> Lit(98, -2),
     INITIAL_SPEED_MIN |-> Lit(10, -1),
     INITIAL_SPEED_MAX |-> Lit(30, -1),
     INITIAL_VY_OFFSET |-> Lit(-30, -1),
     PARTICLE_SIZE_MIN |-> Lit(10, -1),
     PARTICLE_SIZE_MAX |-> Lit(30, -1),
     HUE_SHIFT_SPEED   |-> Lit(3, -1),
     CANVAS_WIDTH      |-> Lit(1200, 0),
     CANVAS_HEIGHT     |-> Lit(800, 0),
     RENDER_SIZE       |-> Lit(25, -1)]

\* C2: for every constant name the value the table exposes, and the value a
\* consumer gets when it reads the name, equals the declared literal, as
\* numbers and as IEEE doubles
C2_ValuesEqualLiterals ==
    /\ \A n \in DOMAIN DeclaredLiterals :
          /\ n \in DOMAIN table
          /\ NumEq(table[n], DeclaredLiterals[n])
          /\ ToF64(table[n]) = ToF64(DeclaredLiterals[n])
    /\ \A c \in Consumers : \A n \in DOMAIN DeclaredLiterals :
          HasRead(c, n) => NumEq(last[c].val, DeclaredLiterals[n])

\* some consumer has read GRAVITY and some consumer RENDER_SIZE
C2_Witness ==
    /\ \E c \in Consumers : HasRead(c, "GRAVITY") /\ ~last[c].threw
    /\ \E c \in Consumers : HasRead(c, "RENDER_SIZE") /\ ~last[c].threw

\* C3: the range invariants: INITIAL_SPEED_MIN <= INITIAL_SPEED_MAX,
\* PARTICLE_SIZE_MIN <= PARTICLE_SIZE_MAX, 0 <= BOUNCE <= 1, 0 <= FRICTION <= 1
C3_RangeInvariants ==
    /\ NumLeq(OrdinaryGet(table, "INITIAL_SPEED_MIN"), OrdinaryGet(table, "INITIAL_SPEED_MAX"))
    /\ NumLeq(OrdinaryGet(table, "PARTICLE_SIZE_MIN"), OrdinaryGet(table, "PARTICLE_SIZE_MAX"))
    /\ NumLeq(Zero, OrdinaryGet(table, "BOUNCE"))
    /\ NumLeq(OrdinaryGet(table, "BOUNCE"), One)
    /\ NumLeq(Zero, OrdinaryGet(table, "FRICTION"))
    /\ NumLeq(OrdinaryGet(table, "FRICTION"), One)

\* consumers have read both ends of a range
C3_Witness ==
    /\ \E c \in Consumers : HasRead(c, "INITIAL_SPEED_MIN")
    /\ \E c \in Consumers : HasRead(c, "INITIAL_SPEED_MAX")
    /\ NumLess(OrdinaryGet(table, "INITIAL_SPEED_MIN"), OrdinaryGet(table, "INITIAL_SPEED_MAX"))

\* the names whose value no binary float holds exactly
NotBinaryExact == {"GRAVITY", "BOUNCE", "FRICTION", "HUE_SHIFT_SPEED"}

\* C4: the JavaScript table and the Rust list define the same names, and for
\* each name the two values are numerically equal: the same number as
\* declared, the same f32 once the JavaScript double is narrowed, and the
\* same double once the f32 is widened except for the names no binary float
\* holds exactly; what a JavaScript consumer reads equals the Rust constant
C4_SameNamesSameValues ==
    /\ DOMAIN table = DOMAIN RUST_CONSTANTS
    /\ \A n \in DOMAIN RUST_CONSTANTS :
          /\ NumEq(OrdinaryGet(table, n), RUST_CONSTANTS[n])
          /\ NarrowToF32(ToF64(OrdinaryGet(table, n))) = ToF32(RUST_CONSTANTS[n])
          /\ (WidenToF64(ToF32(RUST_CONSTANTS[n])) = ToF64(OrdinaryGet(table, n)))
                <=> (n \notin NotBinaryExact)
    /\ \A c \in Consumers : \A n \in DOMAIN RUST_CONSTANTS :
          HasRead(c, n) => NumEq(last[c].val, RUST_CONSTANTS[n])

\* JavaScript consumers have read a name the two lists write differently
\* (200 and 200.0) and a name no binary float holds exactly
C4_Witness ==
    /\ \E c \in Consumers : HasRead(c, "EXPLOSION_RADIUS")
    /\ \E c \in Consumers : HasRead(c, "HUE_SHIFT_SPEED")

\* C5: reading a name the table does not define fails with an error at the
\* access; it never yields a value the consumer goes on with
C5_UndefinedReadFails ==
    \A c \in Consumers :
        (last[c].op = "get" /\ last[c].key \notin Names) => last[c].threw

\* C7: consumers read concurrently without synchronization: under every
\* interleaving each read of a name returns its initialized value, the table
\* is whole and unchanged, and no read is ever blocked
C7_ConcurrentReads ==
    /\ table = PHYSICS_CONSTANTS
    /\ \A c \in Consumers : \A n \in Names :
          HasRead(c, n) => (last[c].val = PHYSICS_CONSTANTS[n] /\ ~last[c].threw)
    /\ \A c \in Consumers : \A k \in ReadKeys : ENABLED Read(c, k)

\* two consumers have each read, one of them the name the other read too
C7_Witness ==
    \E c1, c2 \in Consumers :
        /\ c1 # c2
        /\ HasRead(c1, "FRICTION") /\ HasRead(c2, "FRICTION")

\* the names the update loop and the renderer read
ConsumerNames ==
    {"GRAVITY", "BOUNCE", "FRICTION", "EXPLOSION_FORCE", "EXPLOSION_RADIUS",
     "INITIAL_SPEED_MIN", "INITIAL_SPEED_MAX", "INITIAL_VY_OFFSET",
     "PARTICLE_SIZE_MIN", "PARTICLE_SIZE_MAX", "HUE_SHIFT_SPEED"}
    \cup {"CANVAS_WIDTH", "CANVAS_HEIGHT", "RENDER_SIZE"}

\* C10: every name the update loop or the renderer reads is defined with a
\* numeric value, no read of such a name reaches undefined, and the table
\* defines no other name
C10_ConsumerNamesDefined ==
    /\ DOMAIN table = ConsumerNames
    /\ \A n \in ConsumerNames : OrdinaryGet(table, n).type = "number"
    /\ \A c \in Consumers : \A n \in ConsumerNames :
          HasRead(c, n) => (last[c].val.type = "number" /\ ~last[c].threw)

\* an update-loop name and a renderer name have been read
C10_Witness ==
    /\ \E c \in Consumers : HasRead(c, "HUE_SHIFT_SPEED")
    /\ \E c \in Consumers : HasRead(c, "CANVAS_HEIGHT")

\* C8: one frame of gravity on vy = 0 gives vy = 0.0002, and one application
\* of FRICTION to vx = 10 gives vx = 9.8
C8_GravityAndFriction ==
    /\ (gsteps = 1 /\ NumEq(vy0, Zero)) => NumEq(vy, Lit(2, -4))
    /\ (fsteps = 1 /\ NumEq(vx0, Lit(10, 0))) => NumEq(vx, Lit(98, -1))

\* the particle of the scenario after one frame and one friction application
C8_Witness ==
    /\ gsteps = 1 /\ NumEq(vy0, Zero)
    /\ fsteps = 1 /\ NumEq(vx0, Lit(10, 0))

\* C9: an explosion gives zero impulse to a particle at distance 201, and to
\* any particle farther than 200, and the full EXPLOSION_FORCE (8.0) to a
\* particle at distance 0
C9_ExplosionImpulse ==
    /\ NumLess(Lit(200, 0), dist) => NumEq(impulse.num, Zero)
    /\ NumEq(dist, Zero) => NumEq(impulse.num, Mul(Lit(80, -1), impulse.den))

\* an explosion has reached a particle at distance 201
C9_Witness == NumEq(dist, Lit(201, 0)) /\ NumEq(impulse.num, Zero)

====
